---- MODULE Spec2Model ----
(***************************************************************************)
(* Internet-Mood-Radar: the scan status tracker (lib/scan-status), the     *)
(* search adapter pipeline (adapters/search.ts) with its three worker-pool *)
(* phases, and the recency filter of lib/history.                          *)
(***************************************************************************)
EXTENDS Integers, Sequences, FiniteSets, TLC

\* ------------------------------------------------------------------ bounds
MaxQueries == 3
MaxUrlsToScrape == 3
maxConcurrentSearches == 2
maxConcurrentScrapes == 2

\* -------------------------------------------------------- program constants
URL_DEDUP_DAYS == 7

RegionNames == {"A", "B"}

ScanPhase ==
  {"idle", "fetching", "processing", "clustering", "summarizing", "saving",
   "complete", "error"}

\* PHASE_PROGRESS: the sub-range of the overall 0..100 scale each phase owns
PHASE_PROGRESS ==
  [fetching    |-> [start |-> 0,  end |-> 50],
   processing  |-> [start |-> 50, end |-> 60],
   clustering  |-> [start |-> 60, end |-> 70],
   summarizing |-> [start |-> 70, end |-> 90],
   saving      |-> [start |-> 90, end |-> 100]]

\* FETCH_SUBSTEPS: the sub-range of the fetching phase each pipeline step owns
FETCH_SUBSTEPS_Overlapping ==
  [queryGen   |-> [start |-> 0,  end |-> 5],
   serpSearch |-> [start |-> 5,  end |-> 20],
   mergeDedup |-> [start |-> 20, end |-> 25],
   urlSelect  |-> [start |-> 25, end |-> 30],
   scraping   |-> [start |-> 20, end |-> 70],
   extraction |-> [start |-> 70, end |-> 100]]
FETCH_SUBSTEPS ==
  [queryGen   |-> [start |-> 0,  end |-> 5],
   serpSearch |-> [start |-> 5,  end |-> 20],
   mergeDedup |-> [start |-> 20, end |-> 25],
   urlSelect  |-> [start |-> 25, end |-> 30],
   scraping   |-> [start |-> 30, end |-> 70],
   extraction |-> [start |-> 70, end |-> 100]]

\* ----------------------------------------------------------------- helpers
\* Math.round of the rational num/den (den > 0): floor(num/den + 1/2)
MathRound(num, den) == (2 * num + den) \div (2 * den)

\* { ...a, ...b }: object spread, the fields of b override those of a
SpreadReversed(a, b) ==
  [k \in (DOMAIN a) \cup (DOMAIN b) |-> IF k \in DOMAIN a THEN a[k] ELSE b[k]]
Spread(a, b) ==
  [k \in (DOMAIN a) \cup (DOMAIN b) |-> IF k \in DOMAIN b THEN b[k] ELSE a[k]]

Min2(a, b) == IF a < b THEN a ELSE b

\* calculatePhaseProgress(phase, stepProgress) for the rational stepProgress num/den:
\* Math.round(start + (stepProgress / 100) * (end - start))
calculatePhaseProgressByEnd(phase, num, den) ==
  LET range == PHASE_PROGRESS[phase]
  IN  MathRound(range.start * 100 * den + num * range.end, 100 * den)
calculatePhaseProgress(phase, num, den) ==
  LET range == PHASE_PROGRESS[phase]
  IN  MathRound(range.start * 100 * den + num * (range.end - range.start), 100 * den)

\* calculatePhaseProgress(phase, local) as the build evaluates it, in IEEE
\* doubles: where the real value is an exact tie n + 1/2 the double product can
\* fall just below the tie (fetching, local 29: 14.499999999999998), so
\* Math.round returns n or n + 1
PhaseProgressResults(phase, local) ==
  LET range == PHASE_PROGRESS[phase]
      exact == calculatePhaseProgress(phase, local, 1)
      tie == (range.start * 100 + local * (range.end - range.start)) % 100 = 50
  IN  IF tie THEN {exact - 1, exact} ELSE {exact}

\* calcFetchProgress(substep, stepProgress) for the rational stepProgress num/den:
\* substepProgress = start + (stepProgress / 100) * (end - start), then the
\* fetching phase mapping
calcFetchProgressOfSubstep(substep, num, den) ==
  LET range == FETCH_SUBSTEPS[substep]
  IN  MathRound(range.start * 100 * den + num * (range.end - range.start), 100 * den)
calcFetchProgress(substep, num, den) ==
  LET range == FETCH_SUBSTEPS[substep]
  IN  calculatePhaseProgress("fetching",
        range.start * 100 * den + num * (range.end - range.start), 100 * den)

\* ------------------------------------------------------------------- state
VARIABLES
  currentStatus,   \* the process-wide ScanStatus (a record with optional fields)
  regionProgress,  \* Map region -> {progress, message}, in insertion order
  totalRegions,    \* number of regions given to initRegionTracking
  lastCall,        \* the tracker operation executed last and the phase it found
  regions,         \* the regions configured for a scan
  settings,        \* SearchSettings of the adapters: maxQueries, maxUrlsToScrape
  store,           \* rows of the historicalItem table: url and age in days
  scan,            \* position of the scan orchestrator
  fetch,           \* per region: position and locals of SearchAdapter.fetch
  pool,            \* per region: the worker pool call in progress
  mapPage,         \* state of MapPageContent: categories, feed shown, receipts
  newsFeed,        \* state of the NewsFeed panel: categories, search, page
  indicator        \* state of ScanStatusIndicator, its requests and callback

vars ==
  <<currentStatus, regionProgress, totalRegions, lastCall, regions, settings,
    store, scan, fetch, pool, mapPage, newsFeed, indicator>>

uiVars == <<mapPage, newsFeed, indicator>>

trackerVars == <<currentStatus, regionProgress, totalRegions, lastCall>>

\* ----------------------------------------------------- scan status tracker
Msg(text) == [text |-> text, label |-> << >>]

\* let currentStatus = { phase: 'idle', message: 'Ready' }
IdleStatus == [phase |-> "idle", message |-> Msg(<<"Ready">>)]

\* the tracker's three module-level values, passed through the operations
Tracker == [status |-> currentStatus, map |-> regionProgress, total |-> totalRegions]

MapHas(map, region) == \E i \in 1..Len(map) : map[i].region = region

\* Map.get: the entry as a sequence of length 1, or << >> for undefined
MapGet(map, region) ==
  SelectSeq(map, LAMBDA e : e.region = region)

\* Map.set: an existing key keeps its place, a new key goes last
MapSet(map, region, progress, message) ==
  LET entry == [region |-> region, progress |-> progress, message |-> message]
  IN  IF MapHas(map, region)
      THEN [i \in 1..Len(map) |-> IF map[i].region = region THEN entry ELSE map[i]]
      ELSE Append(map, entry)

\* getScanStatus(): { ...currentStatus }, a copy field by field
getScanStatus(status) == [k \in DOMAIN status |-> status[k]]

\* updateScanStatus(update): currentStatus = { ...currentStatus, ...update }
updateScanStatus(status, update) == Spread(status, update)

\* initRegionTracking(regions)
RECURSIVE InitEntries(_, _)
InitEntries(map, regs) ==
  IF regs = << >> THEN map
  ELSE InitEntries(MapSet(map, Head(regs), 0, <<"Starting...">>), Tail(regs))

initRegionTracking(t, regs) ==
  [t EXCEPT !.map = InitEntries(<< >>, regs), !.total = Len(regs)]

\* the loop of updateRegionProgress: minProgress starts at 100, strict <
RECURSIVE SlowestFrom(_, _, _)
SlowestFrom(map, i, acc) ==
  IF i > Len(map) THEN acc
  ELSE SlowestFrom(map, i + 1,
         IF map[i].progress < acc.minProgress
         THEN [minProgress |-> map[i].progress, slowestRegion |-> map[i].region]
         ELSE acc)

SlowestOfReporting(map) ==
  SlowestFrom(SelectSeq(map, LAMBDA e : e.message # <<"Starting...">>), 1,
              [minProgress |-> 100, slowestRegion |-> ""])
Slowest(map) == SlowestFrom(map, 1, [minProgress |-> 100, slowestRegion |-> ""])

\* the overall progress written by updateRegionProgress
OverallProgressCallerOnly(map, progress) == progress
OverallProgress(map, progress) == Slowest(map).minProgress

\* `${slowestInfo?.message || message}${regionLabel}`
OverallMessageOfCaller(map, total, message) ==
  [text |-> message,
   label |-> IF total > 1 THEN <<Slowest(map).slowestRegion>> ELSE << >>]
OverallMessage(map, total, message) ==
  LET slowestRegion == Slowest(map).slowestRegion
      slowestInfo == MapGet(map, slowestRegion)
      text == IF slowestInfo # << >> /\ slowestInfo[1].message # << >>
              THEN slowestInfo[1].message ELSE message
  IN  [text |-> text,
       label |-> IF total > 1 THEN <<slowestRegion>> ELSE << >>]

\* updateRegionProgress(region, progress, message)
updateRegionProgress(t, region, progress, message) ==
  LET map == MapSet(t.map, region, progress, message)
  IN  IF Len(map) > 0
      THEN [t EXCEPT
             !.map = map,
             !.status = updateScanStatus(t.status,
                          [phase |-> "fetching",
                           message |-> OverallMessage(map, t.total, message),
                           progress |-> OverallProgress(map, progress)])]
      ELSE [t EXCEPT !.map = map]

\* clearRegionTracking()
clearRegionTracking(t) == [t EXCEPT !.map = << >>, !.total = 0]

\* resetScanStatus()
resetScanStatus(t) == [t EXCEPT !.status = IdleStatus]

\* isScanInProgress()
isScanInProgressFetchingOnly(status) == status.phase = "fetching"
isScanInProgress(status) ==
  status.phase # "idle" /\ status.phase # "complete" /\ status.phase # "error"

\* writes the tracker's values back and logs the call
SetTracker(t, op, region) ==
  /\ currentStatus' = t.status
  /\ regionProgress' = t.map
  /\ totalRegions' = t.total
  /\ lastCall' = [op |-> op, region |-> region, from |-> currentStatus.phase]


\* --------------------------------------------------- URLs and the item store
\* raw URLs: a trailing slash does not change the resource
Urls == {"a", "a/", "b", "b/", "c", "d"}

\* normalizeUrl of lib/utils/url: strips the trailing slash
normalizeUrl(url) ==
  CASE url = "a/" -> "a"
    [] url = "b/" -> "b"
    [] OTHER -> url

\* generateId of lib/utils: a deterministic function of its argument
generateId(text) == <<"id", text>>

\* a row of the historicalItem table: id, url and the age of fetchedAt in days.
\* scrapedUrl is not a column: it records the page the item was extracted from
Row(url, age) ==
  [id |-> generateId(<<"search:", url>>), url |-> url, age |-> age,
   scrapedUrl |-> url]

\* contents of the historicalItem table a run can start from
StoreOptions ==
  { {},
    {Row("a/", 3)},
    {Row("b", 7), Row("a", 8)} }

\* getRecentlyScrapedUrls(daysBack): rows with fetchedAt >= now - daysBack,
\* as a set of normalized URLs
RecentRowsAll(rows, daysBack) == rows
RecentRows(rows, daysBack) == {row \in rows : row.age <= daysBack}

getRecentlyScrapedUrls(rows, daysBack) ==
  {normalizeUrl(row.url) : row \in RecentRows(rows, daysBack)}

\* saveItemsToHistory(items): one upsert by id per item, in order. An upsert
\* that throws (the indices in failing) is caught and saves nothing; the update
\* branch writes neither url nor fetchedAt; the create branch makes a new row
RECURSIVE SaveLoopCreateOnly(_, _, _, _)
SaveLoopCreateOnly(rows, items, i, failing) ==
  IF i > Len(items) THEN rows
  ELSE IF i \in failing
       THEN SaveLoopCreateOnly(rows, items, i + 1, failing)
       ELSE SaveLoopCreateOnly(
              rows \cup {[id |-> items[i].id, url |-> items[i].url, age |-> 0,
                          scrapedUrl |-> items[i].scrapedUrl]},
              items, i + 1, failing)
RECURSIVE SaveLoop(_, _, _, _)
SaveLoop(rows, items, i, failing) ==
  IF i > Len(items) THEN rows
  ELSE IF i \in failing \/ \E row \in rows : row.id = items[i].id
       THEN SaveLoop(rows, items, i + 1, failing)
       ELSE SaveLoop(rows \cup {[id |-> items[i].id, url |-> items[i].url, age |-> 0,
                                 scrapedUrl |-> items[i].scrapedUrl]},
                     items, i + 1, failing)

saveItemsToHistory(rows, items, failing) == SaveLoop(rows, items, 1, failing)

\* ------------------------------------------------- merge and deduplication
SerpResult(url, position) == [url |-> url, position |-> position, snippet |-> "serp"]

\* what generateSearchQueries can return as directUrls
DirectOptions == { << >>, <<"a">>, <<"b/", "b", "a">> }

\* what one serpSearch call can return
SerpOptions ==
  { << >>,
    <<SerpResult("a/", 1)>>,
    <<SerpResult("d", 1), SerpResult("a", 2)>> }

\* directUrls.map((d, i) => ({ url, title, snippet: 'Direct source', position: i }))
directAsSerpResults(directUrls) ==
  [i \in 1..Len(directUrls) |->
     [url |-> directUrls[i], position |-> i - 1, snippet |-> "direct"]]

\* allResults = [...directAsSerpResults, ...serpResults]
MergeSerpFirst(direct, serp) == serp \o direct
MergeResults(direct, serp) == direct \o serp

\* for (const r of results) allResults.push(...r)
RECURSIVE Flatten(_)
Flatten(results) ==
  IF results = << >> THEN << >> ELSE Head(results) \o Flatten(Tail(results))

\* the loop of deduplicateResults: the first entry of a normalized URL is kept
RECURSIVE DedupLoopKeepLast(_, _, _)
DedupLoopKeepLast(results, seen, unique) ==
  IF results = << >> THEN unique
  ELSE LET normalizedUrl == normalizeUrl(Head(results).url)
           again == \E j \in 2..Len(results) : normalizeUrl(results[j].url) = normalizedUrl
       IN  DedupLoopKeepLast(Tail(results), seen,
                             IF again THEN unique ELSE Append(unique, Head(results)))
RECURSIVE DedupLoop(_, _, _)
DedupLoop(results, seen, unique) ==
  IF results = << >> THEN unique
  ELSE LET normalizedUrl == normalizeUrl(Head(results).url)
       IN  IF normalizedUrl \notin seen
           THEN DedupLoop(Tail(results), seen \cup {normalizedUrl},
                          Append(unique, Head(results)))
           ELSE DedupLoop(Tail(results), seen, unique)

\* unique.sort((a, b) => a.position - b.position): Array.prototype.sort is stable
RECURSIVE InsertByPosition(_, _)
InsertByPosition(sorted, x) ==
  IF sorted = << >> THEN <<x>>
  ELSE IF Head(sorted).position <= x.position
       THEN <<Head(sorted)>> \o InsertByPosition(Tail(sorted), x)
       ELSE <<x>> \o sorted

RECURSIVE SortByPosition(_)
SortByPosition(s) ==
  IF s = << >> THEN << >>
  ELSE InsertByPosition(SortByPosition(SubSeq(s, 1, Len(s) - 1)), s[Len(s)])

deduplicateResults(results) == SortByPosition(DedupLoop(results, {}, << >>))

\* uniqueResults.filter(r => !existingUrls.has(normalizeUrl(r.url)))
FilterNewRaw(uniqueResults, existingUrls) ==
  SelectSeq(uniqueResults, LAMBDA r : r.url \notin existingUrls)
FilterNew(uniqueResults, existingUrls) ==
  SelectSeq(uniqueResults, LAMBDA r : normalizeUrl(r.url) \notin existingUrls)

\* the subsequence of s at the indices in S
SubSeqAt(s, S) ==
  LET Keep[i \in 0..Len(s)] ==
        IF i = 0 THEN << >>
        ELSE IF i \in S THEN Append(Keep[i - 1], s[i]) ELSE Keep[i - 1]
  IN  Keep[Len(s)]

\* ------------------------------------------------------------- worker pool
NoPool ==
  [running |-> FALSE, items |-> << >>, concurrency |-> 0, cursor |-> 1,
   inflight |-> {}, geocoding |-> {}, results |-> << >>, failed |-> 0,
   earlier |-> {}]

\* number of workers started by workerPoolCollect
PoolWorkersUnbounded(items, concurrency) == Len(items)
PoolWorkers(items, concurrency) == Min2(concurrency, Len(items))

\* workerPoolCollect(items, worker, concurrency, onError): every worker takes
\* its first item before the call first yields
workerPoolCollect(items, concurrency) ==
  LET n == PoolWorkers(items, concurrency)
  IN  [running |-> TRUE, items |-> items, concurrency |-> concurrency,
       cursor |-> n + 1, inflight |-> 1..n, geocoding |-> {}, results |-> << >>,
       failed |-> 0, earlier |-> {}]

\* a worker whose invocation for item i settled takes the next pending item
PoolPullNever(p, i) == [p EXCEPT !.inflight = @ \ {i}, !.geocoding = @ \ {i}]
PoolPull(p, i) ==
  IF p.cursor <= Len(p.items)
  THEN [p EXCEPT !.inflight = (@ \ {i}) \cup {p.cursor},
                 !.geocoding = @ \ {i},
                 !.cursor = @ + 1]
  ELSE [p EXCEPT !.inflight = @ \ {i}, !.geocoding = @ \ {i}]

\* the invocation for item i returned output
PoolSettleOk(p, i, output) == PoolPull([p EXCEPT !.results = Append(@, output)], i)

\* the invocation for item i threw: onError(item, index, error) is called
PoolSettleFail(p, i) == PoolPull([p EXCEPT !.failed = @ + 1], i)

\* the promise of workerPoolCollect resolves
PoolResolvedFailFast(p) ==
  p.running /\ (p.failed > 0 \/ (p.inflight = {} /\ p.cursor > Len(p.items)))
PoolResolved(p) == p.running /\ p.inflight = {} /\ p.cursor > Len(p.items)

\* const results = await workerPoolCollect(...), and the await of runSearches,
\* scrapeUrls and extractAndNormalize in fetch: the caller goes on when the
\* promise of the pool call has resolved
AwaitedNot(p) == p.running
Awaited(p) == PoolResolved(p)

\* the invocations of pool call p, tagged with their source, that have not
\* settled when its caller goes on, with those left by the calls before it
Leftover(p, source) ==
  {<<source, i>> : i \in p.inflight \cup (p.cursor .. Len(p.items))} \cup p.earlier


\* ---------------------------------------------------- SearchAdapter.fetch
IdleFetch ==
  [pc |-> "idle", queries |-> << >>, directUrls |-> << >>, completed |-> 0,
   errors |-> << >>, serpResults |-> << >>, uniqueResults |-> << >>,
   existingUrls |-> {}, newResults |-> << >>, selectedUrls |-> << >>,
   scrapedContent |-> << >>, items |-> << >>]

NonFatalError(source, message) == [source |-> source, message |-> message]

\* reportRegionProgress(region, substep, stepProgress, message), stepProgress = num/den
reportRegionProgress(t, region, substep, num, den, message) ==
  updateRegionProgress(t, region, calcFetchProgress(substep, num, den), message)

\* stepProgress = (completed / total) * 100, as the rational num/den
StepProgressByIndex(completed, index, total) == [num |-> index * 100, den |-> total]
StepProgress(completed, index, total) == [num |-> completed * 100, den |-> total]

\* the onError callbacks: errors.push({ source, message, timestamp })
OnErrorDropped(errors, source, message) == errors
OnErrorSearchSource(errors, source, message) ==
  Append(errors, [source |-> "Search", message |-> message])
OnError(errors, source, message) == Append(errors, NonFatalError(source, message))

\* BaseAdapter.emptyResult(message): what fetch returns when the provider is
\* unavailable, no items and no errors
emptyResult == [IdleFetch EXCEPT !.pc = "unavailable"]

\* fetch, lines 116-132: the availability check, then the first report and
\* the call of generateSearchQueries
FetchStartReportsFirst(r) ==
  /\ fetch[r].pc = "start"
  /\ \E available \in BOOLEAN :
       /\ fetch' = [fetch EXCEPT ![r] = IF available THEN [@ EXCEPT !.pc = "gen"]
                                        ELSE emptyResult]
       /\ SetTracker(
            reportRegionProgress(Tracker, r, "queryGen", 0, 1,
                                 <<"Generating queries...">>),
            "updateRegionProgress", r)
  /\ UNCHANGED <<uiVars, regions, settings, store, scan, pool>>
FetchStart(r) ==
  /\ fetch[r].pc = "start"
  /\ \E available \in BOOLEAN :
       IF available
       THEN /\ fetch' = [fetch EXCEPT ![r].pc = "gen"]
            /\ SetTracker(
                 reportRegionProgress(Tracker, r, "queryGen", 0, 1,
                                      <<"Generating queries...">>),
                 "updateRegionProgress", r)
       ELSE /\ fetch' = [fetch EXCEPT ![r] = emptyResult]
            /\ UNCHANGED trackerVars
  /\ UNCHANGED <<uiVars, regions, settings, store, scan, pool>>

\* generateSearchQueries throws: the error leaves fetch
GenFail(r) ==
  /\ fetch[r].pc = "gen"
  /\ fetch' = [fetch EXCEPT ![r].pc = "failed"]
  /\ UNCHANGED <<trackerVars, uiVars, regions, settings, store, scan, pool>>

\* generateSearchQueries returns; fetch goes on to runSearches, lines 134-141
\* and 219-245
GenSettle(r) ==
  /\ fetch[r].pc = "gen"
  /\ \E n \in 0..settings.maxQueries, directUrls \in DirectOptions :
       LET queries == [i \in 1..n |-> i]
           t1 == reportRegionProgress(Tracker, r, "queryGen", 100, 1,
                                      <<"queries", n>>)
           t2 == reportRegionProgress(t1, r, "serpSearch", 0, 1,
                                      <<"Searching", 0, n>>)
       IN  /\ fetch' = [fetch EXCEPT ![r].pc = "search",
                                     ![r].queries = queries,
                                     ![r].directUrls = directUrls,
                                     ![r].completed = 0]
           /\ pool' = [pool EXCEPT
                        ![r] = workerPoolCollect(queries, maxConcurrentSearches)]
           /\ SetTracker(t2, "updateRegionProgress", r)
  /\ UNCHANGED <<uiVars, regions, settings, store, scan>>

\* the search worker of runSearches, lines 225-236: serpSearch returned
SearchSettle(r) ==
  /\ fetch[r].pc = "search"
  /\ \E i \in pool[r].inflight, searchResults \in SerpOptions :
       LET completed == fetch[r].completed + 1
           total == Len(fetch[r].queries)
           sp == StepProgress(completed, i, total)
       IN  /\ fetch' = [fetch EXCEPT ![r].completed = completed]
           /\ pool' = [pool EXCEPT ![r] = PoolSettleOk(@, i, searchResults)]
           /\ SetTracker(
                reportRegionProgress(Tracker, r, "serpSearch", sp.num, sp.den,
                                     <<"Searching", completed, total>>),
                "updateRegionProgress", r)
  /\ UNCHANGED <<uiVars, regions, settings, store, scan>>

\* serpSearch threw: the onError callback of runSearches, lines 238-244
SearchFail(r) ==
  /\ fetch[r].pc = "search"
  /\ \E i \in pool[r].inflight :
       /\ fetch' = [fetch EXCEPT
                     ![r].errors = OnError(@, "Search",
                                     <<"Query failed", fetch[r].queries[i]>>)]
       /\ pool' = [pool EXCEPT ![r] = PoolSettleFail(@, i)]
  /\ UNCHANGED <<trackerVars, uiVars, regions, settings, store, scan>>

\* runSearches returns (lines 247-252); fetch merges and deduplicates and calls
\* getRecentlyScrapedUrls, lines 142-164
AfterSearch(r) ==
  /\ fetch[r].pc = "search"
  /\ Awaited(pool[r])
  /\ LET serpResults == Flatten(pool[r].results)
         allResults ==
           MergeResults(directAsSerpResults(fetch[r].directUrls), serpResults)
         t1 == reportRegionProgress(Tracker, r, "serpSearch", 100, 1,
                                    <<"results", Len(serpResults)>>)
         t2 == reportRegionProgress(t1, r, "mergeDedup", 0, 1, <<"Merging URLs...">>)
     IN  /\ fetch' = [fetch EXCEPT ![r].pc = "recency",
                                   ![r].serpResults = serpResults,
                                   ![r].uniqueResults = deduplicateResults(allResults)]
         /\ pool' = [pool EXCEPT
                      ![r] = [NoPool EXCEPT !.earlier = Leftover(pool[r], "Search")]]
         /\ SetTracker(t2, "updateRegionProgress", r)
  /\ UNCHANGED <<uiVars, regions, settings, store, scan>>

\* getRecentlyScrapedUrls returns; fetch filters and calls selectBestUrls,
\* lines 164-181
RecencySettle(r) ==
  /\ fetch[r].pc = "recency"
  /\ LET existingUrls == getRecentlyScrapedUrls(store, URL_DEDUP_DAYS)
         newResults == FilterNew(fetch[r].uniqueResults, existingUrls)
         t1 == reportRegionProgress(Tracker, r, "mergeDedup", 100, 1,
                                    <<"new URLs", Len(newResults)>>)
         t2 == reportRegionProgress(t1, r, "urlSelect", 0, 1, <<"Selecting URLs...">>)
     IN  /\ fetch' = [fetch EXCEPT ![r].pc = "select",
                                   ![r].queries = << >>,
                                   ![r].directUrls = << >>,
                                   ![r].serpResults = << >>,
                                   ![r].existingUrls = existingUrls,
                                   ![r].newResults = newResults]
         /\ SetTracker(t2, "updateRegionProgress", r)
  /\ UNCHANGED <<uiVars, regions, settings, store, scan, pool>>

\* selectBestUrls throws: the error leaves fetch
SelectFailWhileScraping(r) ==
  /\ fetch[r].pc = "scrape"
  /\ fetch' = [fetch EXCEPT ![r].pc = "failed"]
  /\ UNCHANGED <<trackerVars, uiVars, regions, settings, store, scan, pool>>
SelectFail(r) ==
  /\ fetch[r].pc = "select"
  /\ fetch' = [fetch EXCEPT ![r].pc = "failed"]
  /\ UNCHANGED <<trackerVars, uiVars, regions, settings, store, scan, pool>>

\* selectBestUrls returns at most maxUrls of its candidates; fetch goes on to
\* scrapeUrls, lines 182-188 and 284-315
SelectSettle(r) ==
  /\ fetch[r].pc = "select"
  /\ \E S \in SUBSET (1..Len(fetch[r].newResults)) :
       /\ Cardinality(S) <= settings.maxUrlsToScrape
       /\ LET picked == SubSeqAt(fetch[r].newResults, S)
              selectedUrls == [i \in 1..Len(picked) |-> [url |-> picked[i].url]]
              n == Len(selectedUrls)
              t1 == reportRegionProgress(Tracker, r, "urlSelect", 100, 1,
                                         <<"URLs selected", n>>)
              t2 == reportRegionProgress(t1, r, "scraping", 0, 1,
                                         <<"Scraping", 0, n>>)
          IN  /\ fetch' = [fetch EXCEPT ![r].pc = "scrape",
                                        ![r].uniqueResults = << >>,
                                        ![r].newResults = << >>,
                                        ![r].selectedUrls = selectedUrls,
                                        ![r].completed = 0]
              /\ pool' = [pool EXCEPT
                           ![r] = [workerPoolCollect(selectedUrls, maxConcurrentScrapes)
                                     EXCEPT !.earlier = pool[r].earlier]]
              /\ SetTracker(t2, "updateRegionProgress", r)
  /\ UNCHANGED <<uiVars, regions, settings, store, scan>>


\* the scrape worker of scrapeUrls, lines 289-306: scrapeAsMarkdown returned
ScrapeSettle(r) ==
  /\ fetch[r].pc = "scrape"
  /\ \E i \in pool[r].inflight :
       LET completed == fetch[r].completed + 1
           total == Len(fetch[r].selectedUrls)
           sp == StepProgress(completed, i, total)
       IN  /\ fetch' = [fetch EXCEPT ![r].completed = completed]
           /\ pool' = [pool EXCEPT
                        ![r] = PoolSettleOk(@, i, [url |-> pool[r].items[i].url])]
           /\ SetTracker(
                reportRegionProgress(Tracker, r, "scraping", sp.num, sp.den,
                                     <<"Scraping", completed, total>>),
                "updateRegionProgress", r)
  /\ UNCHANGED <<uiVars, regions, settings, store, scan>>

\* scrapeAsMarkdown threw: the onError callback of scrapeUrls, lines 308-314
ScrapeFail(r) ==
  /\ fetch[r].pc = "scrape"
  /\ \E i \in pool[r].inflight :
       /\ fetch' = [fetch EXCEPT
                     ![r].errors = OnError(@, "Scrape",
                                     <<"Failed to scrape", pool[r].items[i].url>>)]
       /\ pool' = [pool EXCEPT ![r] = PoolSettleFail(@, i)]
  /\ UNCHANGED <<trackerVars, uiVars, regions, settings, store, scan>>

\* scrapeUrls returns; fetch goes on to extractAndNormalize, lines 189-195 and
\* 335-420
AfterScrape(r) ==
  /\ fetch[r].pc = "scrape"
  /\ Awaited(pool[r])
  /\ LET scrapedContent == pool[r].results
         n == Len(scrapedContent)
         t1 == reportRegionProgress(Tracker, r, "scraping", 100, 1,
                                    <<"pages scraped", n>>)
         t2 == reportRegionProgress(t1, r, "extraction", 0, 1, <<"Extracting", 0, n>>)
     IN  /\ fetch' = [fetch EXCEPT ![r].pc = "extract",
                                   ![r].scrapedContent = scrapedContent,
                                   ![r].completed = 0]
         /\ pool' = [pool EXCEPT
                      ![r] = [workerPoolCollect(scrapedContent, maxConcurrentScrapes)
                                EXCEPT !.earlier = Leftover(pool[r], "Scrape")]]
         /\ SetTracker(t2, "updateRegionProgress", r)
  /\ UNCHANGED <<uiVars, regions, settings, store, scan>>

\* what extractContent can return as articleUrl for a scraped page: none (""),
\* or for page "d" the canonical URL "c" that the page names
ArticleUrls(url) == IF url = "d" THEN {"", "c"} ELSE {""}

\* the NormalizedItem built by the extraction worker, lines 385-403:
\* finalUrl = extracted.articleUrl || scraped.url. scrapedUrl is not a field of
\* the program's item: it records the page the item was extracted from
NormalizedItemScrapedUrl(scraped, articleUrl, located) ==
  [id |-> generateId(<<"search:", scraped.url>>), url |-> scraped.url,
   location |-> located, scrapedUrl |-> scraped.url]
NormalizedItem(scraped, articleUrl, located) ==
  LET finalUrl == IF articleUrl # "" THEN articleUrl ELSE scraped.url
  IN  [id |-> generateId(<<"search:", finalUrl>>), url |-> finalUrl,
       location |-> located, scrapedUrl |-> scraped.url]

\* the extraction worker, lines 340-411: extractContent returned a value; with
\* a location the worker goes on to await geocode
ExtractSettle(r) ==
  /\ fetch[r].pc = "extract"
  /\ \E i \in pool[r].inflight \ pool[r].geocoding, hasLocation \in BOOLEAN :
       LET completed == fetch[r].completed + 1
           total == Len(fetch[r].scrapedContent)
           sp == StepProgress(completed, i, total)
       IN  /\ fetch' = [fetch EXCEPT ![r].completed = completed]
           /\ \E articleUrl \in ArticleUrls(pool[r].items[i].url) :
                pool' = [pool EXCEPT
                          ![r] = IF hasLocation
                                 THEN [@ EXCEPT !.geocoding = @ \cup {i}]
                                 ELSE PoolSettleOk(@, i,
                                        NormalizedItem(pool[r].items[i], articleUrl,
                                                       FALSE))]
           /\ SetTracker(
                reportRegionProgress(Tracker, r, "extraction", sp.num, sp.den,
                                     <<"Extracting", completed, total>>),
                "updateRegionProgress", r)
  /\ UNCHANGED <<uiVars, regions, settings, store, scan>>

\* extractContent threw, or returned null and the worker threw 'Extraction
\* returned null' (lines 350-352): the onError callback, lines 413-419
ExtractFailAborts(r) ==
  /\ fetch[r].pc = "extract"
  /\ \E i \in pool[r].inflight \ pool[r].geocoding,
        cause \in {"threw", "Extraction returned null"} :
       /\ fetch' = [fetch EXCEPT
                     ![r].errors = OnError(@, "Extract",
                                     <<"Failed to extract", pool[r].items[i].url, cause>>)]
       /\ pool' = [pool EXCEPT ![r].failed = @ + 1,
                               ![r].inflight = {},
                               ![r].geocoding = {},
                               ![r].cursor = Len(pool[r].items) + 1]
  /\ UNCHANGED <<trackerVars, uiVars, regions, settings, store, scan>>
ExtractFail(r) ==
  /\ fetch[r].pc = "extract"
  /\ \E i \in pool[r].inflight \ pool[r].geocoding,
        cause \in {"threw", "Extraction returned null"} :
       /\ fetch' = [fetch EXCEPT
                     ![r].errors = OnError(@, "Extract",
                                     <<"Failed to extract", pool[r].items[i].url, cause>>)]
       /\ pool' = [pool EXCEPT ![r] = PoolSettleFail(@, i)]
  /\ UNCHANGED <<trackerVars, uiVars, regions, settings, store, scan>>

\* geocode returned coordinates or null: the worker returns its item, with the
\* location only if there are coordinates (the articleUrl of the extraction is
\* drawn here, where the item is built)
GeocodeSettle(r) ==
  /\ fetch[r].pc = "extract"
  /\ \E i \in pool[r].geocoding, coords \in BOOLEAN :
       \E articleUrl \in ArticleUrls(pool[r].items[i].url) :
         pool' = [pool EXCEPT
                   ![r] = PoolSettleOk(@, i,
                            NormalizedItem(pool[r].items[i], articleUrl, coords))]
  /\ UNCHANGED <<trackerVars, uiVars, regions, settings, store, scan, fetch>>

\* geocode threw inside the worker: the onError callback, lines 413-419
GeocodeFail(r) ==
  /\ fetch[r].pc = "extract"
  /\ \E i \in pool[r].geocoding :
       /\ fetch' = [fetch EXCEPT
                     ![r].errors = OnError(@, "Extract",
                                     <<"Failed to extract", pool[r].items[i].url, "threw">>)]
       /\ pool' = [pool EXCEPT ![r] = PoolSettleFail(@, i)]
  /\ UNCHANGED <<trackerVars, uiVars, regions, settings, store, scan>>

\* extractAndNormalize returns; fetch reports and returns { items, errors },
\* lines 196-207
AfterExtract(r) ==
  /\ fetch[r].pc = "extract"
  /\ Awaited(pool[r])
  /\ LET items == pool[r].results
     IN  /\ fetch' = [fetch EXCEPT ![r].pc = "done", ![r].items = items]
         /\ pool' = [pool EXCEPT
                      ![r] = [NoPool EXCEPT !.earlier = Leftover(pool[r], "Extract")]]
         /\ SetTracker(
              reportRegionProgress(Tracker, r, "extraction", 100, 1,
                                   <<"items extracted", Len(items)>>),
              "updateRegionProgress", r)
  /\ UNCHANGED <<uiVars, regions, settings, store, scan>>

Pipeline(r) ==
  \/ FetchStart(r)
  \/ GenFail(r)
  \/ GenSettle(r)
  \/ SearchSettle(r)
  \/ SearchFail(r)
  \/ AfterSearch(r)
  \/ RecencySettle(r)
  \/ SelectFail(r)
  \/ SelectSettle(r)
  \/ ScrapeSettle(r)
  \/ ScrapeFail(r)
  \/ AfterScrape(r)
  \/ ExtractSettle(r)
  \/ ExtractFail(r)
  \/ GeocodeSettle(r)
  \/ GeocodeFail(r)
  \/ AfterExtract(r)

\* --------------------------------------------------- the scan orchestrator
Settled(r) == fetch[r].pc \in {"idle", "done", "failed", "unavailable"}

RegionSet == {regions[i] : i \in 1..Len(regions)}

\* a new run: the status enters fetching, region tracking is initialised and
\* one SearchAdapter.fetch is started per region
StartScan ==
  /\ scan = "rest"
  /\ ~isScanInProgress(currentStatus)
  /\ LET t1 == [Tracker EXCEPT
                 !.status = updateScanStatus(@,
                              [phase |-> "fetching",
                               message |-> Msg(<<"Starting scan...">>),
                               progress |-> 0])]
     IN  SetTracker(initRegionTracking(t1, regions), "initRegionTracking", "")
  /\ fetch' = [r \in RegionNames |->
                 IF r \in RegionSet THEN [IdleFetch EXCEPT !.pc = "start"]
                 ELSE IdleFetch]
  /\ scan' = "fetching"
  /\ UNCHANGED <<uiVars, regions, settings, store, pool>>

\* every region has returned or failed: region tracking is cleared and the
\* run moves to processing with the items the regions returned
FinishFetch ==
  /\ scan = "fetching"
  /\ \A r \in RegionNames : Settled(r)
  /\ LET t1 == clearRegionTracking(Tracker)
         t2 == [t1 EXCEPT
                 !.status = updateScanStatus(@,
                              [phase |-> "processing",
                               message |-> Msg(<<"Processing...">>),
                               progress |-> calculatePhaseProgress("processing", 0, 1)])]
     IN  SetTracker(t2, "updateScanStatus", "")
  /\ fetch' = [r \in RegionNames |-> [IdleFetch EXCEPT !.items = fetch[r].items]]
  /\ scan' = "processing"
  /\ UNCHANGED <<uiVars, regions, settings, store, pool>>

NextPhase ==
  [processing |-> "clustering", clustering |-> "summarizing",
   summarizing |-> "saving", saving |-> "complete"]

\* the run moves to its next phase, or completes: the status and the
\* orchestrator's position
AdvanceStatus ==
  /\ scan \in DOMAIN NextPhase
  /\ LET phase == NextPhase[scan]
         update ==
           IF phase = "complete"
           THEN [phase |-> phase, message |-> Msg(<<"Scan complete">>), progress |-> 100]
           ELSE [phase |-> phase, message |-> Msg(<<phase>>),
                 progress |-> calculatePhaseProgress(phase, 0, 1)]
     IN  /\ SetTracker([Tracker EXCEPT !.status = updateScanStatus(@, update)],
                       "updateScanStatus", "")
         /\ scan' = IF phase = "complete" THEN "rest" ELSE phase

\* a run whose store is a snapshot: nothing is written to history
Advance ==
  /\ AdvanceStatus
  /\ UNCHANGED <<uiVars, regions, settings, store, fetch, pool>>

\* the items the regions returned, in the order of the regions
RECURSIVE CollectedItems(_)
CollectedItems(regs) ==
  IF regs = << >> THEN << >>
  ELSE fetch[Head(regs)].items \o CollectedItems(Tail(regs))

\* a run with persistence: the saving phase ends with saveItemsToHistory(items)
AdvanceAndSave ==
  /\ AdvanceStatus
  /\ IF scan = "saving"
     THEN \E failing \in SUBSET (1..Len(CollectedItems(regions))) :
            store' = saveItemsToHistory(store, CollectedItems(regions), failing)
     ELSE store' = store
  /\ UNCHANGED <<uiVars, regions, settings, fetch, pool>>

\* the run fails: the status enters error
ScanFail ==
  /\ scan # "rest"
  /\ \A r \in RegionNames : Settled(r)
  /\ LET t1 == clearRegionTracking(Tracker)
         t2 == [t1 EXCEPT
                 !.status = updateScanStatus(@,
                              [phase |-> "error",
                               message |-> Msg(<<"Scan failed">>),
                               error |-> "scan failed"])]
     IN  SetTracker(t2, "updateScanStatus", "")
  /\ fetch' = [r \in RegionNames |-> IdleFetch]
  /\ scan' = "rest"
  /\ UNCHANGED <<uiVars, regions, settings, store, pool>>

\* resetScanStatus(), called while no scan is in progress
ResetScan ==
  /\ ~isScanInProgress(currentStatus)
  /\ SetTracker(resetScanStatus(Tracker), "resetScanStatus", "")
  /\ UNCHANGED <<uiVars, regions, settings, store, scan, fetch, pool>>

Orchestrator == StartScan \/ FinishFetch \/ Advance \/ ScanFail \/ ResetScan

\* ------------------------------------------------- categories and lenses
\* type ContentCategory = 'news' | 'events' | 'tech' | 'social' | 'weather'
ALL_CATEGORIES == <<"news", "events", "tech", "social", "weather">>

ContentCategory == {ALL_CATEGORIES[i] : i \in 1..Len(ALL_CATEGORIES)}

\* what extractContent can return as category: the five categories, and values
\* outside the vocabulary, the model's answer being unchecked at run time
ExtractedCategories == ContentCategory \cup {"sports", "politics", ""}

\* categoryToLens(category)
categoryToLensDefaultEvents(category) ==
  CASE category = "events" -> "Events"
    [] category = "tech" -> "Tech"
    [] category = "weather" -> "Weather"
    [] category = "social" -> "Conversation"
    [] category = "news" -> "Headlines"
    [] OTHER -> "Events"
categoryToLens(category) ==
  CASE category = "events" -> "Events"
    [] category = "tech" -> "Tech"
    [] category = "weather" -> "Weather"
    [] category = "social" -> "Conversation"
    [] category = "news" -> "Headlines"
    [] OTHER -> "Headlines"

\* the fields of the NormalizedItem that depend on the extracted category,
\* lines 360, 383 and 398
CategoryFields(category) ==
  [source |-> IF category = "events" THEN "events" ELSE "search",
   lens |-> categoryToLens(category),
   context |-> <<"Search: ", category>>]

\* one run of the extraction worker on a scraped page, up to the item it returns
ExtractItem ==
  /\ \E url \in Urls, category \in ExtractedCategories, located \in BOOLEAN :
       \E articleUrl \in ArticleUrls(url) :
         fetch' = [fetch EXCEPT
                    !["A"].items =
                      <<Spread(NormalizedItem([url |-> url], articleUrl, located),
                               CategoryFields(category))>>]
  /\ UNCHANGED <<trackerVars, uiVars, regions, settings, store, scan, pool>>

\* ------------------------------------------- the map page and the NewsFeed
ITEMS_PER_PAGE == 50

\* the kinds of receipt a feed holds: lens, source and title
ReceiptKinds ==
  << [lens |-> "Headlines", source |-> "search", title |-> "x"],
     [lens |-> "Events", source |-> "events", title |-> "y"],
     [lens |-> "", source |-> "Search: tech", title |-> "x"],
     [lens |-> "Conversation", source |-> "search", title |-> "y"] >>

\* the receipts the page can hold, as the number of receipts of each kind
ReceiptOptions ==
  { <<0, 0, 0, 0>>, <<30, 0, 10, 0>>, <<60, 60, 0, 0>>, <<50, 50, 20, 30>> }

\* what can be typed into the search box
SearchQueries == {"", " ", "x"}

\* getReceiptCategory(receipt) of the NewsFeed: the lens if there is one,
\* otherwise the source
getReceiptCategory(receipt) ==
  IF receipt.lens # ""
  THEN CASE receipt.lens = "Events" -> "events"
         [] receipt.lens = "Tech" -> "tech"
         [] receipt.lens = "Weather" -> "weather"
         [] receipt.lens = "Conversation" -> "social"
         [] OTHER -> "news"
  ELSE CASE receipt.source = "events" -> "events"
         [] receipt.source = "hn" -> "tech"
         [] receipt.source \in {"reddit", "telegram"} -> "social"
         [] receipt.source = "Search: tech" -> "tech"
         [] receipt.source = "Search: social" -> "social"
         [] receipt.source = "Search: events" -> "events"
         [] receipt.source = "Search: weather" -> "weather"
         [] OTHER -> "news"

\* the filter of filteredReceipts: the category test applies when some but not
\* all categories are selected, the search test when the query is not blank
PassesFilter(receipt, selectedCategories, searchQuery) ==
  /\ (Cardinality(selectedCategories) > 0 /\
      Cardinality(selectedCategories) < Len(ALL_CATEGORIES)) =>
       getReceiptCategory(receipt) \in selectedCategories
  /\ searchQuery \notin {"", " "} => receipt.title = searchQuery

\* filteredReceipts.length
RECURSIVE FilteredLengthFrom(_, _, _, _)
FilteredLengthFrom(receipts, selectedCategories, searchQuery, i) ==
  IF i > Len(ReceiptKinds) THEN 0
  ELSE (IF PassesFilter(ReceiptKinds[i], selectedCategories, searchQuery)
        THEN receipts[i] ELSE 0)
       + FilteredLengthFrom(receipts, selectedCategories, searchQuery, i + 1)

FilteredLength(receipts, selectedCategories, searchQuery) ==
  FilteredLengthFrom(receipts, selectedCategories, searchQuery, 1)

\* Math.ceil(filteredReceipts.length / ITEMS_PER_PAGE)
totalPagesOf(receipts, selectedCategories, searchQuery) ==
  (FilteredLength(receipts, selectedCategories, searchQuery) + ITEMS_PER_PAGE - 1)
    \div ITEMS_PER_PAGE

totalPages ==
  totalPagesOf(mapPage.receipts, newsFeed.selectedCategories, newsFeed.searchQuery)

\* the updater of handleCategoryToggle, the same in both components: the last
\* selected category cannot be removed
ToggleCategoryUnguarded(prev, category) ==
  IF category \in prev THEN prev \ {category} ELSE prev \cup {category}
ToggleCategory(prev, category) ==
  IF category \in prev
  THEN IF Cardinality(prev) <= 1 THEN prev ELSE prev \ {category}
  ELSE prev \cup {category}

InitMapPage ==
  [selectedCategories |-> ContentCategory, showNewsFeed |-> FALSE,
   receipts |-> <<0, 0, 0, 0>>]

\* the NewsFeed starts from initialCategories, the Set object of the page; held
\* tells whether its state is still that very object
InitNewsFeed ==
  [selectedCategories |-> ContentCategory, searchQuery |-> "", currentPage |-> 1,
   held |-> TRUE]

\* the effects of the NewsFeed after a render. The first sets the categories to
\* initialCategories while the panel is open; the second sets the page to 1
\* when the categories (another Set object) or the search query have changed
NewsFeedEffects(page, feed, changed) ==
  LET sync == page.showNewsFeed /\ ~feed.held
      reset == changed \/ sync
  IN  [feed EXCEPT
        !.selectedCategories = IF sync THEN page.selectedCategories ELSE @,
        !.held = IF sync THEN TRUE ELSE @,
        !.currentPage = IF reset THEN 1 ELSE @]

\* handleCategoryToggle of MapPageContent, from the map controls
MapCategoryToggle ==
  /\ \E category \in ContentCategory :
       LET next == ToggleCategory(mapPage.selectedCategories, category)
           page == [mapPage EXCEPT !.selectedCategories = next]
           feed == [newsFeed EXCEPT
                     !.held = IF next = mapPage.selectedCategories THEN @ ELSE FALSE]
       IN  /\ mapPage' = page
           /\ newsFeed' = NewsFeedEffects(page, feed, FALSE)
  /\ UNCHANGED <<trackerVars, indicator, regions, settings, store, scan, fetch, pool>>

\* handleCategoryToggle of the NewsFeed: a changed set is passed to the page
\* through onCategoriesChange and is the object both then hold
FeedCategoryToggle ==
  /\ mapPage.showNewsFeed
  /\ \E category \in ContentCategory :
       LET next == ToggleCategory(newsFeed.selectedCategories, category)
           changed == next # newsFeed.selectedCategories
           page == [mapPage EXCEPT
                     !.selectedCategories = IF changed THEN next ELSE @]
           feed == [newsFeed EXCEPT !.selectedCategories = next]
       IN  /\ mapPage' = page
           /\ newsFeed' = NewsFeedEffects(page, feed, changed)
  /\ UNCHANGED <<trackerVars, indicator, regions, settings, store, scan, fetch, pool>>

\* onChange of the search box: setSearchQuery(e.target.value)
FeedSearch ==
  /\ mapPage.showNewsFeed
  /\ \E query \in SearchQueries \ {newsFeed.searchQuery} :
       newsFeed' = NewsFeedEffects(mapPage, [newsFeed EXCEPT !.searchQuery = query], TRUE)
  /\ UNCHANGED <<trackerVars, mapPage, indicator, regions, settings, store, scan,
                 fetch, pool>>

\* the four pagination buttons, shown when totalPages > 1; the first two are
\* disabled on page 1, the last two on the last page
FeedPaginate ==
  /\ mapPage.showNewsFeed
  /\ totalPages > 1
  /\ \E button \in {"first", "previous", "next", "last"} :
       /\ button \in {"first", "previous"} => newsFeed.currentPage # 1
       /\ button \in {"next", "last"} => newsFeed.currentPage # totalPages
       /\ newsFeed' =
            [newsFeed EXCEPT
              !.currentPage =
                CASE button = "first" -> 1
                  [] button = "previous" -> IF @ - 1 > 1 THEN @ - 1 ELSE 1
                  [] button = "next" -> Min2(totalPages, @ + 1)
                  [] OTHER -> totalPages]
  /\ UNCHANGED <<trackerVars, mapPage, indicator, regions, settings, store, scan,
                 fetch, pool>>

\* the page gets other data or another time frame: the receipts prop of the
\* NewsFeed changes; none of its effects depends on receipts
ReceiptsChange ==
  /\ \E receipts \in ReceiptOptions \ {mapPage.receipts} :
       mapPage' = [mapPage EXCEPT !.receipts = receipts]
  /\ UNCHANGED <<trackerVars, newsFeed, indicator, regions, settings, store, scan,
                 fetch, pool>>

\* onOpenNewsFeed and onClose: setShowNewsFeed
FeedOpenClose ==
  /\ LET page == [mapPage EXCEPT !.showNewsFeed = ~@]
     IN  /\ mapPage' = page
         /\ newsFeed' = NewsFeedEffects(page, newsFeed, FALSE)
  /\ UNCHANGED <<trackerVars, indicator, regions, settings, store, scan, fetch, pool>>

\* ------------------------------------------------- ScanStatusIndicator
MaxRequests == 2
MaxCalls == 2

\* the component after mount: no status yet, not polling, nothing in flight.
\* isPollingRef is the ref, interval the 2-second timer of the polling effect,
\* dirty tells that state was set and the component has not rendered since,
\* requests are the status requests in flight by the caller of pollStatus,
\* completeCalls counts the invocations of onScanComplete since the component
\* last saw a status other than complete or startWatching was last called;
\* watchedScan tells that startWatching was last called during a scan
InitIndicator ==
  [status |-> "null", isPolling |-> FALSE, isPollingRef |-> FALSE,
   showSuccess |-> FALSE, interval |-> FALSE, dirty |-> FALSE,
   requests |-> [poll |-> 0, check |-> 0], hideTimers |-> 0, completeCalls |-> 0,
   watchedScan |-> FALSE]

RequestsInFlight(ind) == ind.requests.poll + ind.requests.check

\* fetch('/api/scan-status') of pollStatus is sent
SendRequest(ind, caller) == [ind EXCEPT !.requests[caller] = @ + 1]

\* the component renders: isPollingRef.current = isPolling, and the polling
\* effect sets or clears its interval
IndicatorRender ==
  /\ indicator.dirty
  /\ indicator' = [indicator EXCEPT !.isPollingRef = indicator.isPolling,
                                    !.interval = indicator.isPolling,
                                    !.dirty = FALSE]
  /\ UNCHANGED <<trackerVars, mapPage, newsFeed, regions, settings, store, scan,
                 fetch, pool>>

\* startWatching(): the ref and the state are set and pollStatus is called
StartWatching ==
  /\ RequestsInFlight(indicator) < MaxRequests
  /\ indicator' = [SendRequest(indicator, "poll") EXCEPT
                    !.isPollingRef = TRUE,
                    !.isPolling = TRUE,
                    !.dirty = @ \/ ~indicator.isPolling,
                    !.completeCalls = 0,
                    !.watchedScan = isScanInProgress(currentStatus)]
  /\ UNCHANGED <<trackerVars, mapPage, newsFeed, regions, settings, store, scan,
                 fetch, pool>>

\* the 2-second interval fires: pollStatus()
PollTick ==
  /\ indicator.interval
  /\ RequestsInFlight(indicator) < MaxRequests
  /\ indicator' = SendRequest(indicator, "poll")
  /\ UNCHANGED <<trackerVars, mapPage, newsFeed, regions, settings, store, scan,
                 fetch, pool>>

\* the check on mount and the 3-second interval: checkAndStartPolling()
CheckTick ==
  /\ RequestsInFlight(indicator) < MaxRequests
  /\ indicator' = SendRequest(indicator, "check")
  /\ UNCHANGED <<trackerVars, mapPage, newsFeed, regions, settings, store, scan,
                 fetch, pool>>

\* pollStatus from the response on, lines 42-64, with the status data it got
PollStatusResume(ind, data) ==
  LET currentlyPolling == ind.isPollingRef
      seen == [ind EXCEPT !.status = data.phase, !.dirty = TRUE,
                          !.completeCalls = IF data.phase = "complete" THEN @ ELSE 0]
  IN  IF data.phase = "complete" /\ currentlyPolling
      THEN [seen EXCEPT !.showSuccess = TRUE,
                        !.isPolling = FALSE,
                        !.completeCalls = Min2(@ + 1, MaxCalls),
                        !.hideTimers = Min2(@ + 1, MaxCalls)]
      ELSE IF data.phase = "error"
           THEN [seen EXCEPT !.isPolling = FALSE]
           ELSE seen

\* checkAndStartPolling after await pollStatus(), lines 79-86
CheckResume(ind, data) ==
  IF data.phase \notin {"idle", "complete", "error"} /\ ~ind.isPollingRef
  THEN [ind EXCEPT !.isPollingRef = TRUE, !.isPolling = TRUE]
  ELSE ind

\* a status request is answered with the server's getScanStatus() and its
\* caller resumes; a request that fails makes pollStatus return null
Response ==
  /\ \E caller \in {"poll", "check"}, ok \in BOOLEAN :
       /\ indicator.requests[caller] > 0
       /\ LET received == [indicator EXCEPT !.requests[caller] = @ - 1]
              data == getScanStatus(currentStatus)
              polled == PollStatusResume(received, data)
          IN  indicator' =
                IF ~ok THEN received
                ELSE IF caller = "check" THEN CheckResume(polled, data)
                ELSE polled
  /\ UNCHANGED <<trackerVars, mapPage, newsFeed, regions, settings, store, scan,
                 fetch, pool>>

\* the 5-second timeout set on completion fires
HideSuccess ==
  /\ indicator.hideTimers > 0
  /\ indicator' = [indicator EXCEPT !.hideTimers = @ - 1,
                                    !.showSuccess = FALSE,
                                    !.status = "null",
                                    !.dirty = TRUE]
  /\ UNCHANGED <<trackerVars, mapPage, newsFeed, regions, settings, store, scan,
                 fetch, pool>>

\* ---------------------------------------------------------- specifications
InitTracker ==
  /\ currentStatus = IdleStatus
  /\ regionProgress = << >>
  /\ totalRegions = 0
  /\ lastCall = [op |-> "none", region |-> "", from |-> "idle"]

InitPipeline ==
  /\ scan = "rest"
  /\ fetch = [r \in RegionNames |-> IdleFetch]
  /\ pool = [r \in RegionNames |-> NoPool]
  /\ mapPage = InitMapPage
  /\ newsFeed = InitNewsFeed
  /\ indicator = InitIndicator

\* a scan over two regions, each adapter limited to one query and one URL
Init ==
  /\ InitTracker
  /\ InitPipeline
  /\ regions = <<"A", "B">>
  /\ settings = [maxQueries |-> 1, maxUrlsToScrape |-> 1]
  /\ store \in StoreOptions

Next == Orchestrator \/ \E r \in RegionNames : Pipeline(r)

Spec == Init /\ [][Next]_vars

\* a scan over one region
InitFetch ==
  /\ InitTracker
  /\ InitPipeline
  /\ regions = <<"A">>
  /\ settings = [maxQueries |-> MaxQueries, maxUrlsToScrape |-> MaxUrlsToScrape]
  /\ store \in StoreOptions

SpecFetch == InitFetch /\ [][Next]_vars

\* successive scans over one region, limited to one query and one URL, each
\* saving its items to history
InitRuns ==
  /\ InitTracker
  /\ InitPipeline
  /\ regions = <<"A">>
  /\ settings = [maxQueries |-> 1, maxUrlsToScrape |-> 1]
  /\ store \in StoreOptions

NextRuns ==
  \/ StartScan
  \/ FinishFetch
  \/ AdvanceAndSave
  \/ ScanFail
  \/ ResetScan
  \/ \E r \in RegionNames : Pipeline(r)

SpecRuns == InitRuns /\ [][NextRuns]_vars


\* the tracker's exported operations, called with arbitrary arguments
RegionLists == { <<"A">>, <<"A", "B">> }
ApiProgress == {0, 30, 80, 100}
ApiMessages == { <<"m1">>, <<"m2">> }
StatusUpdates ==
  { [phase |-> "fetching", message |-> Msg(<<"Starting scan...">>), progress |-> 0,
     startedAt |-> 1],
    [phase |-> "processing", progress |-> 50],
    [message |-> Msg(<<"m3">>)],
    [phase |-> "complete", progress |-> 100, completedAt |-> 2, itemCount |-> 5],
    [phase |-> "error", error |-> "boom"] }

ApiInit ==
  /\ \E regs \in RegionLists :
       SetTracker(initRegionTracking(Tracker, regs), "initRegionTracking", "")
  /\ UNCHANGED <<uiVars, regions, settings, store, scan, fetch, pool>>

ApiUpdateRegion ==
  /\ \E r \in RegionNames, p \in ApiProgress, m \in ApiMessages :
       SetTracker(updateRegionProgress(Tracker, r, p, m), "updateRegionProgress", r)
  /\ UNCHANGED <<uiVars, regions, settings, store, scan, fetch, pool>>

ApiClear ==
  /\ SetTracker(clearRegionTracking(Tracker), "clearRegionTracking", "")
  /\ UNCHANGED <<uiVars, regions, settings, store, scan, fetch, pool>>

\* updateScanStatus(update); the call is logged with its argument
ApiUpdateStatus ==
  /\ \E update \in StatusUpdates :
       /\ currentStatus' = updateScanStatus(currentStatus, update)
       /\ lastCall' = [op |-> "updateScanStatus", region |-> "",
                       from |-> currentStatus.phase, update |-> update]
  /\ UNCHANGED <<regionProgress, totalRegions, uiVars, regions, settings, store, scan,
                 fetch, pool>>

ApiReset ==
  /\ SetTracker(resetScanStatus(Tracker), "resetScanStatus", "")
  /\ UNCHANGED <<uiVars, regions, settings, store, scan, fetch, pool>>

InitApi ==
  /\ InitTracker
  /\ InitPipeline
  /\ regions = << >>
  /\ settings = [maxQueries |-> 0, maxUrlsToScrape |-> 0]
  /\ store = {}

NextTracker == ApiInit \/ ApiUpdateRegion \/ ApiClear \/ ApiUpdateStatus \/ ApiReset

SpecTracker == InitApi /\ [][NextTracker]_vars

\* a phase reports its local progress 0..100: the overall progress written is
\* calculatePhaseProgress(phase, local)
PhaseReport ==
  /\ \E phase \in DOMAIN PHASE_PROGRESS, local \in 0..100 :
       \E progress \in PhaseProgressResults(phase, local) :
         /\ currentStatus' =
              updateScanStatus(currentStatus, [phase |-> phase, progress |-> progress])
         /\ lastCall' = [op |-> "calculatePhaseProgress", region |-> "",
                         phase |-> phase, local |-> local]
  /\ UNCHANGED <<regionProgress, totalRegions, uiVars, regions, settings, store, scan,
                 fetch, pool>>

SpecPhase == InitApi /\ [][PhaseReport]_vars


\* the extraction worker alone, over every page and every extracted category
SpecLens == InitApi /\ [][ExtractItem]_vars

\* the map page with its NewsFeed panel, under the user's actions and changes
\* of the data
NextFeed ==
  \/ MapCategoryToggle
  \/ FeedCategoryToggle
  \/ FeedSearch
  \/ FeedPaginate
  \/ ReceiptsChange
  \/ FeedOpenClose

SpecFeed == InitApi /\ [][NextFeed]_vars

\* the indicator polling the status of scans that start, advance and end on
\* the server
NextIndicator ==
  \/ StartScan
  \/ FinishFetch
  \/ Advance
  \/ ScanFail
  \/ ResetScan
  \/ IndicatorRender
  \/ StartWatching
  \/ PollTick
  \/ CheckTick
  \/ Response
  \/ HideSuccess

SpecIndicator == InitApi /\ [][NextIndicator]_vars


\* ------------------------------------------------------------------ claims
ErrorsFrom(r, source) == SelectSeq(fetch[r].errors, LAMBDA e : e.source = source)

TrackedProgress == {regionProgress[i].progress : i \in 1..Len(regionProgress)}
MinTracked == CHOOSE p \in TrackedProgress : \A q \in TrackedProgress : p <= q

\* C1: after updateRegionProgress(r, p, m), whichever region called, the status
\* progress is the minimum progress over the tracked regions and the status
\* message is the message of a region holding that minimum (and names it)
C1_MinAggregation ==
  lastCall.op = "updateRegionProgress" =>
    /\ currentStatus.progress = MinTracked
    /\ \E i \in 1..Len(regionProgress) :
         /\ regionProgress[i].progress = MinTracked
         /\ currentStatus.message.text = regionProgress[i].message
         /\ currentStatus.message.label \in {<< >>, <<"">>, <<regionProgress[i].region>>}

\* A at 80 and B at 30, the call made by A: progress 30 and B's message
C1_Witness ==
  /\ lastCall.op = "updateRegionProgress"
  /\ lastCall.region = "A"
  /\ regionProgress =
       << [region |-> "A", progress |-> 80, message |-> <<"m1">>],
          [region |-> "B", progress |-> 30, message |-> <<"m2">>] >>
  /\ currentStatus.progress = 30
  /\ currentStatus.message = [text |-> <<"m2">>, label |-> <<"B">>]

\* C2: while regions are tracked (between initRegionTracking and
\* clearRegionTracking) no step of any region pipeline lowers the status progress
C2_ProgressMonotonic ==
  [][(regionProgress # << >> /\ regionProgress' # << >>) =>
       currentStatus'.progress >= currentStatus.progress]_vars

\* both regions have advanced, to different values, and the status with them
C2_Witness ==
  /\ Len(regionProgress) = 2
  /\ regionProgress[1].progress > regionProgress[2].progress
  /\ regionProgress[2].progress > 0
  /\ currentStatus.phase = "fetching"
  /\ currentStatus.progress = regionProgress[2].progress

\* C3: during a worker pool run at most `concurrency` invocations are
\* outstanding: maxConcurrentSearches searches, maxConcurrentScrapes scrapes or
\* extractions
C3_BoundedConcurrency ==
  \A r \in RegionNames :
    pool[r].running =>
      /\ Cardinality(pool[r].inflight) <= pool[r].concurrency
      /\ fetch[r].pc = "search" => Cardinality(pool[r].inflight) <= maxConcurrentSearches
      /\ fetch[r].pc \in {"scrape", "extract"} =>
           Cardinality(pool[r].inflight) <= maxConcurrentScrapes

\* more searches than workers: one search has settled, the last query has been
\* taken in its place and the pool is full again
C3_Witness ==
  /\ fetch["A"].pc = "search"
  /\ Len(pool["A"].items) > maxConcurrentSearches
  /\ Cardinality(pool["A"].inflight) = maxConcurrentSearches
  /\ pool["A"].results # << >>
  /\ Len(pool["A"].items) \in pool["A"].inflight

PoolSource(r) ==
  CASE fetch[r].pc = "search" -> "Search"
    [] fetch[r].pc = "scrape" -> "Scrape"
    [] OTHER -> "Extract"

\* C4: when a pool run over K items with F failures has drained, it holds K - F
\* results and the error callback has run F times, once per failed item
C4_ResultsAndErrors ==
  \A r \in RegionNames :
    PoolResolved(pool[r]) =>
      /\ Len(pool[r].results) = Len(pool[r].items) - pool[r].failed
      /\ Len(ErrorsFrom(r, PoolSource(r))) = pool[r].failed
      /\ Cardinality({e.message : e \in
                       {ErrorsFrom(r, PoolSource(r))[i] :
                          i \in 1..Len(ErrorsFrom(r, PoolSource(r)))}})
           = pool[r].failed

\* three searches, the first settled one failed, the others were still run
C4_Witness ==
  /\ fetch["A"].pc = "search"
  /\ PoolResolved(pool["A"])
  /\ Len(pool["A"].items) = 3
  /\ pool["A"].failed = 1
  /\ Len(pool["A"].results) = 2
  /\ fetch["A"].errors # << >>

\* C5: while unstarted items remain, the number of outstanding invocations
\* equals the concurrency limit; at any time it is the smaller of the limit and
\* the number of items not yet settled, so no worker idles while items wait
C5_WorkConserving ==
  \A r \in RegionNames :
    pool[r].running =>
      /\ pool[r].cursor <= Len(pool[r].items) =>
           Cardinality(pool[r].inflight) = pool[r].concurrency
      /\ Cardinality(pool[r].inflight) =
           Min2(pool[r].concurrency,
                Len(pool[r].items) - Len(pool[r].results) - pool[r].failed)

\* an invocation has failed and the pending third item has taken its place
C5_Witness ==
  /\ pool["A"].running
  /\ pool["A"].failed = 1
  /\ pool["A"].results = << >>
  /\ Len(pool["A"].items) = 3
  /\ 3 \in pool["A"].inflight
  /\ Cardinality(pool["A"].inflight) = pool["A"].concurrency

\* C6: the caller of a worker pool run continues only when every item has
\* produced a result or reported its failure, failures included
C6_NoFailFast ==
  [][\A r \in RegionNames :
       (pool[r].running /\ fetch'[r].pc # fetch[r].pc) =>
         /\ pool[r].inflight = {}
         /\ pool[r].cursor > Len(pool[r].items)
         /\ Len(pool[r].results) + pool[r].failed = Len(pool[r].items)]_vars

\* extraction has drained with a failure and a success among three pages
C6_Witness ==
  /\ fetch["A"].pc = "done"
  /\ Len(fetch["A"].scrapedContent) = 3
  /\ Len(ErrorsFrom("A", "Extract")) >= 1
  /\ Len(fetch["A"].items) >= 1

SeqRange(s) == {s[i] : i \in 1..Len(s)}

\* C7: item failures never fail fetch; when fetch returns, the errors hold one
\* entry per failed query, scrape and extraction, under its own source, and the
\* items are the selected URLs less the scrape and extraction failures
C7_PartialFailure ==
  \A r \in RegionNames :
    /\ fetch[r].pc = "failed" => (~pool[r].running /\ fetch[r].selectedUrls = << >>)
    /\ fetch[r].pc = "done" =>
         LET scrapeErrors == ErrorsFrom(r, "Scrape")
             extractErrors == ErrorsFrom(r, "Extract")
             searchErrors == ErrorsFrom(r, "Search")
             Url(s) == {x.url : x \in SeqRange(s)}
         IN  /\ Len(fetch[r].items) =
                  Len(fetch[r].selectedUrls) - Len(scrapeErrors) - Len(extractErrors)
             /\ Len(fetch[r].errors) =
                  Len(searchErrors) + Len(scrapeErrors) + Len(extractErrors)
             /\ {e.message[2] : e \in SeqRange(scrapeErrors)} =
                  Url(fetch[r].selectedUrls) \ Url(fetch[r].scrapedContent)
             /\ Cardinality({e.message[2] : e \in SeqRange(scrapeErrors)}) =
                  Len(scrapeErrors)
             /\ {e.message[2] : e \in SeqRange(extractErrors)} =
                  Url(fetch[r].scrapedContent) \
                    {x.scrapedUrl : x \in SeqRange(fetch[r].items)}
             /\ Cardinality({e.message[2] : e \in SeqRange(extractErrors)}) =
                  Len(extractErrors)
             /\ Cardinality({e.message[2] : e \in SeqRange(searchErrors)}) =
                  Len(searchErrors)

\* a query, a scrape and an extraction have failed and fetch has returned one item
C7_Witness ==
  /\ fetch["A"].pc = "done"
  /\ Len(fetch["A"].selectedUrls) = 3
  /\ Len(ErrorsFrom("A", "Search")) = 1
  /\ Len(ErrorsFrom("A", "Scrape")) = 1
  /\ Len(ErrorsFrom("A", "Extract")) = 1
  /\ Len(fetch["A"].items) = 1

\* C8: the merged and deduplicated list holds one entry per normalized URL of
\* its inputs, and for a URL that is among the direct URLs that entry is the
\* direct one
C8_DedupPrefersDirect ==
  \A r \in RegionNames :
    fetch[r].pc = "recency" =>
      LET unique == fetch[r].uniqueResults
          direct == directAsSerpResults(fetch[r].directUrls)
          Norm(s) == {normalizeUrl(x.url) : x \in SeqRange(s)}
      IN  /\ \A i, j \in 1..Len(unique) :
               normalizeUrl(unique[i].url) = normalizeUrl(unique[j].url) => i = j
          /\ Norm(unique) = Norm(direct) \cup Norm(fetch[r].serpResults)
          /\ \A i \in 1..Len(unique) :
               normalizeUrl(unique[i].url) \in Norm(direct) =>
                 /\ unique[i].snippet = "direct"
                 /\ unique[i] \in SeqRange(direct)

\* direct URL "a" at position 0 and the organic result "a/": one entry, the direct
C8_Witness ==
  /\ fetch["A"].pc = "recency"
  /\ fetch["A"].directUrls = <<"a">>
  /\ \E i \in 1..Len(fetch["A"].serpResults) : fetch["A"].serpResults[i].url = "a/"
  /\ \E i \in 1..Len(fetch["A"].uniqueResults) :
       fetch["A"].uniqueResults[i] = [url |-> "a", position |-> 0, snippet |-> "direct"]
  /\ \A i \in 1..Len(fetch["A"].uniqueResults) : fetch["A"].uniqueResults[i].url # "a/"

\* C9: no URL whose normalized form is in the set returned by
\* getRecentlyScrapedUrls (rows of the last 7 days) is passed to selectBestUrls
\* or to scrapeAsMarkdown
C9_RecentNotScraped ==
  \A r \in RegionNames :
    /\ fetch[r].pc = "select" =>
         /\ fetch[r].existingUrls =
              {normalizeUrl(row.url) : row \in {x \in store : x.age <= 7}}
         /\ \A i \in 1..Len(fetch[r].newResults) :
              normalizeUrl(fetch[r].newResults[i].url) \notin fetch[r].existingUrls
    /\ fetch[r].pc = "scrape" =>
         \A i \in 1..Len(pool[r].items) :
           normalizeUrl(pool[r].items[i].url) \notin fetch[r].existingUrls

\* "a/" was saved 3 days ago: the candidate "a" is dropped, another is scraped
C9_Witness ==
  /\ fetch["A"].pc = "scrape"
  /\ fetch["A"].existingUrls = {"a"}
  /\ fetch["A"].selectedUrls # << >>
  /\ pool["A"].inflight # {}

PhaseChain ==
  { <<"idle", "fetching">>, <<"fetching", "processing">>,
    <<"processing", "clustering">>, <<"clustering", "summarizing">>,
    <<"summarizing", "saving">>, <<"saving", "complete">> }

PhaseStepClaimed(p, q) ==
  \/ p = q
  \/ <<p, q>> \in PhaseChain
  \/ q = "error"
  \/ p \in {"complete", "error"} /\ q = "fetching"

C11_ReentryClearsError ==
  [][(currentStatus.phase \in {"complete", "error"} /\ currentStatus'.phase = "fetching") =>
       /\ "progress" \in DOMAIN currentStatus'
       /\ "error" \notin DOMAIN currentStatus']_vars

\* C12 as claimed: a call of updateRegionProgress that follows
\* clearRegionTracking (no initRegionTracking between them) leaves the status
\* and the tracked regions unchanged
C12_NoEffectAfterClear ==
  [][(lastCall.op = "clearRegionTracking" /\ lastCall'.op = "updateRegionProgress") =>
       /\ currentStatus' = currentStatus
       /\ regionProgress' = regionProgress]_vars

\* C13: updateScanStatus(update) gives the supplied fields their new values and
\* keeps every other field of the status (phase, message, progress, startedAt,
\* completedAt, error, itemCount) as it was; no field appears or disappears
C13_PartialMerge ==
  [][lastCall'.op = "updateScanStatus" =>
       LET update == lastCall'.update
       IN  /\ DOMAIN currentStatus' = (DOMAIN currentStatus) \cup (DOMAIN update)
           /\ \A k \in DOMAIN update : currentStatus'[k] = update[k]
           /\ \A k \in (DOMAIN currentStatus) \ (DOMAIN update) :
                currentStatus'[k] = currentStatus[k]]_vars

\* a message-only update of a failed run: phase, progress, startedAt and error
\* are those of before
C13_Witness ==
  /\ lastCall.op = "updateScanStatus"
  /\ lastCall.update = [message |-> Msg(<<"m3">>)]
  /\ currentStatus =
       [phase |-> "error", message |-> Msg(<<"m3">>), progress |-> 0,
        startedAt |-> 1, error |-> "boom"]

\* C14: calculatePhaseProgress(phase, local) is start + (local/100)*(end - start)
\* of the phase's range rounded to an integer (within 1/2 of the real value); for
\* every phase and local in 0..100 it lies in [start, end] and a larger local
\* never gives a smaller result; local 50 in summarizing gives 80
C14_PhaseMapping ==
  [][lastCall'.op = "calculatePhaseProgress" =>
       LET range == PHASE_PROGRESS[lastCall'.phase]
           local == lastCall'.local
           result == currentStatus'.progress
           real100 == 100 * range.start + local * (range.end - range.start)
       IN  /\ 100 * result - 50 <= real100
           /\ real100 <= 100 * result + 50
           /\ range.start <= result
           /\ result <= range.end
           /\ (/\ lastCall.op = "calculatePhaseProgress"
               /\ lastCall.phase = lastCall'.phase
               /\ lastCall.local < local) => currentStatus.progress <= result
           /\ (lastCall'.phase = "summarizing" /\ local = 50) => result = 80]_vars

\* summarizing at local 50: overall progress 80
C14_Witness ==
  /\ lastCall.op = "calculatePhaseProgress"
  /\ lastCall.phase = "summarizing"
  /\ lastCall.local = 50
  /\ currentStatus.progress = 80

\* C15: when the availability check fails, fetch returns the empty result in
\* its first step: nothing of the pipeline has run or runs afterwards (no
\* queries, results, selected URLs, scraped pages, items or errors, no worker
\* pool), the returning step leaves the tracker as it was, and the region's
\* entry stays the one initRegionTracking made
C15_UnavailableReturnsEmpty ==
  [][\A r \in RegionNames :
       fetch'[r].pc = "unavailable" =>
         /\ fetch'[r] = [IdleFetch EXCEPT !.pc = "unavailable"]
         /\ pool[r] = NoPool
         /\ pool'[r] = NoPool
         /\ fetch[r].pc \in {"start", "unavailable"}
         /\ fetch[r].pc = "start" => UNCHANGED trackerVars
         /\ lastCall' # lastCall => lastCall'.region # r
         /\ MapGet(regionProgress', r) =
              <<[region |-> r, progress |-> 0, message |-> <<"Starting...">>]>>]_vars

\* region A returned empty at once while region B went through its pipeline
\* and returned an item; the status still shows A at its initial entry
C15_Witness ==
  /\ fetch["A"].pc = "unavailable"
  /\ fetch["B"].pc = "done"
  /\ Len(fetch["B"].items) = 1
  /\ currentStatus.progress = 0
  /\ currentStatus.message = [text |-> <<"Starting...">>, label |-> <<"A">>]

\* the invocations of one source outstanding for region r: those of the pool
\* call in progress and those an earlier call left behind
Outstanding(r, source) ==
  {x \in pool[r].earlier : x[1] = source} \cup
  (IF pool[r].running /\ PoolSource(r) = source
   THEN {<<source, i>> : i \in pool[r].inflight} ELSE {})

\* C16: within one region no scrape is outstanding while a search is, and no
\* extraction while a search or a scrape is: when fetch goes on after a pool
\* call, every invocation of that call has settled
C16_PhasesDoNotOverlap ==
  \A r \in RegionNames :
    /\ pool[r].earlier = {}
    /\ Outstanding(r, "Scrape") # {} => Outstanding(r, "Search") = {}
    /\ Outstanding(r, "Extract") # {} =>
         (Outstanding(r, "Search") = {} /\ Outstanding(r, "Scrape") = {})
    /\ fetch[r].pc \in {"scrape", "extract"} =>
         Len(fetch[r].selectedUrls) <= settings.maxUrlsToScrape
    /\ fetch[r].pc = "extract" =>
         Len(fetch[r].scrapedContent) + Len(ErrorsFrom(r, "Scrape")) =
           Len(fetch[r].selectedUrls)

\* two extractions are outstanding; the three scrapes before them, one of them
\* failed, have all settled
C16_Witness ==
  /\ fetch["A"].pc = "extract"
  /\ Outstanding("A", "Extract") = {<<"Extract", 1>>, <<"Extract", 2>>}
  /\ Len(fetch["A"].selectedUrls) = 3
  /\ Len(ErrorsFrom("A", "Scrape")) = 1
  /\ Len(ErrorsFrom("A", "Search")) = 1

\* C17: whatever the interleaving of the regions' pipelines, the status that
\* getScanStatus returns after an updateRegionProgress call carries the message
\* and the progress of one and the same tracked region, the one its label names
C17_StatusWrittenWhole ==
  lastCall.op = "updateRegionProgress" =>
    LET read == getScanStatus(currentStatus)
    IN  /\ read.phase = "fetching"
        /\ \E i \in 1..Len(regionProgress) :
             /\ read.message.label = <<regionProgress[i].region>>
             /\ read.message.text = regionProgress[i].message
             /\ read.progress = regionProgress[i].progress

\* region A has reported last and is ahead: the status read is wholly that of
\* region B, which has itself advanced
C17_Witness ==
  /\ lastCall.op = "updateRegionProgress"
  /\ lastCall.region = "A"
  /\ getScanStatus(currentStatus).message.label = <<"B">>
  /\ getScanStatus(currentStatus).progress > 0
  /\ MapGet(regionProgress, "A")[1].progress > getScanStatus(currentStatus).progress
  /\ MapGet(regionProgress, "B")[1].message = getScanStatus(currentStatus).message.text
  /\ MapGet(regionProgress, "A")[1].message # MapGet(regionProgress, "B")[1].message

\* the normalized URLs of the entries of a result list
NormalizedUrls(s) == {normalizeUrl(s[i].url) : i \in 1..Len(s)}

\* C18 as claimed: of the search results that share a normalized URL, none of
\* them direct, the deduplicated list keeps the one with the lowest position
C18_KeepsLowestPosition ==
  \A r \in RegionNames :
    fetch[r].pc = "recency" =>
      LET unique == fetch[r].uniqueResults
          serp == fetch[r].serpResults
          direct == directAsSerpResults(fetch[r].directUrls)
      IN  \A i \in 1..Len(unique) :
            normalizeUrl(unique[i].url) \notin NormalizedUrls(direct) =>
              \A j \in 1..Len(serp) :
                normalizeUrl(serp[j].url) = normalizeUrl(unique[i].url) =>
                  unique[i].position <= serp[j].position

\* C18 as amended: of the search results that share a normalized URL, none of
\* them direct, the deduplicated list keeps the first in the order in which the
\* results of the queries were concatenated
C18_KeepsFirstOccurrence ==
  \A r \in RegionNames :
    fetch[r].pc = "recency" =>
      LET unique == fetch[r].uniqueResults
          serp == fetch[r].serpResults
          direct == directAsSerpResults(fetch[r].directUrls)
      IN  /\ \A i \in 1..Len(unique) :
               normalizeUrl(unique[i].url) \notin NormalizedUrls(direct) =>
                 \E j \in 1..Len(serp) :
                   /\ serp[j] = unique[i]
                   /\ \A k \in 1..(j - 1) :
                        normalizeUrl(serp[k].url) # normalizeUrl(unique[i].url)
          /\ \A j \in 1..Len(serp) :
               \E i \in 1..Len(unique) :
                 normalizeUrl(unique[i].url) = normalizeUrl(serp[j].url)

\* one query returned "a" at position 2, a later one "a/" at position 1, no
\* direct URL: the entry kept is "a" at position 2
C18_Witness ==
  /\ fetch["A"].pc = "recency"
  /\ fetch["A"].directUrls = << >>
  /\ fetch["A"].serpResults =
       <<SerpResult("d", 1), SerpResult("a", 2), SerpResult("a/", 1)>>
  /\ fetch["A"].uniqueResults = <<SerpResult("d", 1), SerpResult("a", 2)>>

\* C19 as claimed: in the deduplicated list sorted by position every direct
\* URL precedes every organic search result
C19_DirectUrlsLead ==
  \A r \in RegionNames :
    fetch[r].pc = "recency" =>
      LET unique == fetch[r].uniqueResults
      IN  \A i, j \in 1..Len(unique) :
            (unique[i].snippet = "serp" /\ unique[j].snippet = "direct") => j < i

\* C20 as claimed: a URL that an earlier run scraped, and whose item was saved
\* to the store within the last 7 days, is not scraped again
C20_SavedUrlNotScrapedAgain ==
  \A r \in RegionNames :
    fetch[r].pc = "scrape" =>
      \A i \in 1..Len(pool[r].items) :
        \A row \in store :
          row.age <= 7 => pool[r].items[i].url # row.scrapedUrl

\* C21: the id of an item is generateId of "search:" and its final URL (the
\* articleUrl of the extraction when there is one, otherwise the scraped URL),
\* and so is the id of every row; the store never holds two rows with one id or
\* two rows with one URL, whatever runs and saves came before
C21_OneRowPerFinalUrl ==
  /\ \A r \in RegionNames :
       \A i \in 1..Len(fetch[r].items) :
         LET item == fetch[r].items[i]
         IN  /\ item.id = generateId(<<"search:", item.url>>)
             /\ item.url \in {item.scrapedUrl} \cup (ArticleUrls(item.scrapedUrl) \ {""})
  /\ \A row \in store : row.id = generateId(<<"search:", row.url>>)
  /\ \A row1, row2 \in store :
       (row1.id = row2.id \/ row1.url = row2.url) => row1 = row2

\* "a" was saved 8 days ago; a later run has scraped "a" again and saved its
\* item: the store still holds the one row of "a"
C21_Witness ==
  /\ scan = "rest"
  /\ currentStatus.phase = "complete"
  /\ lastCall.from = "saving"
  /\ Len(fetch["A"].items) = 1
  /\ fetch["A"].items[1].url = "a"
  /\ store = {Row("b", 7), Row("a", 8)}

\* C22: a failure of generateSearchQueries ends fetch with nothing started (no
\* query, no worker pool, no error entry); a failure of selectBestUrls ends it
\* after the searches and before any scrape or extraction (no selected URL, no
\* scraped page, no pool call in progress); a failed fetch holds no items and
\* takes no further step of its pipeline
C22_TerminalFailure ==
  [][\A r \in RegionNames :
       /\ (fetch[r].pc # "failed" /\ fetch'[r].pc = "failed") =>
            /\ fetch[r].pc \in {"gen", "select"}
            /\ fetch[r].pc = "gen" =>
                 /\ fetch'[r] = [IdleFetch EXCEPT !.pc = "failed"]
                 /\ pool[r] = NoPool
                 /\ pool'[r] = NoPool
            /\ fetch[r].pc = "select" =>
                 /\ ~pool[r].running
                 /\ ~pool'[r].running
                 /\ pool'[r].earlier = {}
                 /\ fetch'[r].selectedUrls = << >>
                 /\ fetch'[r].scrapedContent = << >>
                 /\ ErrorsFrom(r, "Scrape") = << >>
                 /\ ErrorsFrom(r, "Extract") = << >>
            /\ fetch'[r].items = << >>
       /\ fetch[r].pc = "failed" =>
            /\ fetch'[r] = fetch[r] \/ fetch'[r].pc \in {"idle", "start"}
            /\ fetch'[r].items = << >>
            /\ pool'[r] = pool[r]
            /\ lastCall' # lastCall => lastCall'.region # r]_vars

\* region A failed in selectBestUrls, with candidates at hand, while region B
\* went on and returned an item
C22_Witness ==
  /\ fetch["A"].pc = "failed"
  /\ fetch["A"].newResults # << >>
  /\ fetch["B"].pc = "done"
  /\ Len(fetch["B"].items) = 1

\* the step appends an error of an extraction that returned null for region r
NullExtraction(r) ==
  /\ Len(fetch'[r].errors) = Len(fetch[r].errors) + 1
  /\ LET e == fetch'[r].errors[Len(fetch'[r].errors)]
     IN  /\ e.source = "Extract"
         /\ Len(e.message) = 3
         /\ e.message[3] = "Extraction returned null"

\* C23: an extraction that returns null counts as a failure of its page: the
\* step adds one error with source 'Extract' naming the page and nothing else,
\* adds no item and reports no progress, and the other extractions go on: those
\* in flight stay in flight and a pending page is taken up in its place
C23_NullExtractionFails ==
  [][\A r \in RegionNames :
       NullExtraction(r) =>
         \E i \in pool[r].inflight \ pool[r].geocoding :
           /\ fetch'[r].errors =
                Append(fetch[r].errors,
                       NonFatalError("Extract",
                         <<"Failed to extract", pool[r].items[i].url,
                           "Extraction returned null">>))
           /\ pool'[r].results = pool[r].results
           /\ pool'[r].failed = pool[r].failed + 1
           /\ fetch'[r].completed = fetch[r].completed
           /\ fetch'[r].pc = "extract"
           /\ UNCHANGED trackerVars
           /\ pool'[r].running
           /\ i \notin pool'[r].inflight
           /\ pool[r].inflight \ {i} \subseteq pool'[r].inflight
           /\ pool'[r].geocoding = pool[r].geocoding
           /\ pool[r].cursor <= Len(pool[r].items) =>
                (pool[r].cursor \in pool'[r].inflight /\ pool'[r].cursor = pool[r].cursor + 1)]_vars

\* of three scraped pages the first one taken up gave null: it left one error
\* and no item, and the two other pages were extracted
C23_Witness ==
  /\ fetch["A"].pc = "done"
  /\ Len(fetch["A"].scrapedContent) = 3
  /\ Len(fetch["A"].items) = 2
  /\ fetch["A"].errors =
       <<NonFatalError("Extract",
           <<"Failed to extract", fetch["A"].scrapedContent[1].url,
             "Extraction returned null">>)>>
  /\ \A i \in 1..2 : fetch["A"].items[i].scrapedUrl # fetch["A"].scrapedContent[1].url

\* the pipeline step of region r that a worker-pool phase is in
PoolSubstep(r) ==
  CASE fetch[r].pc = "search" -> "serpSearch"
    [] fetch[r].pc = "scrape" -> "scraping"
    [] OTHER -> "extraction"

\* the step is the completion of an item of the pool phase region r is in
CompletionReport(r) ==
  /\ fetch[r].pc \in {"search", "scrape", "extract"}
  /\ fetch'[r].pc = fetch[r].pc
  /\ fetch'[r].completed # fetch[r].completed

\* C24: in the search, scrape and extraction phases the progress reported when
\* an item completes is that of the count of items completed so far, whichever
\* item it is: the count goes up by one with every report and never exceeds
\* the number of items, so the step progress count/total*100 reported by a
\* region rises strictly from report to report and never exceeds 100
C24_ProgressByCounter ==
  [][\A r \in RegionNames :
       CompletionReport(r) =>
         LET total == Len(pool[r].items)
             completed == fetch'[r].completed
             before == MapGet(regionProgress, r)[1]
             after == MapGet(regionProgress', r)[1]
         IN  /\ completed = fetch[r].completed + 1
             /\ completed <= total
             /\ after.progress =
                  calcFetchProgress(PoolSubstep(r), completed * 100, total)
             /\ after.message[2] = completed
             /\ after.message[3] = total
             /\ before.progress <= after.progress
             /\ after.progress <= calcFetchProgress(PoolSubstep(r), 100, 1)
             /\ lastCall'.op = "updateRegionProgress"
             /\ lastCall'.region = r]_vars

\* of three pages being scraped the second was the first to complete: the
\* progress reported is that of one page out of three
C24_Witness ==
  /\ fetch["A"].pc = "scrape"
  /\ Len(pool["A"].items) = 3
  /\ fetch["A"].completed = 1
  /\ pool["A"].results = <<[url |-> pool["A"].items[2].url]>>
  /\ MapGet(regionProgress, "A")[1].progress = calcFetchProgress("scraping", 100, 3)
  /\ MapGet(regionProgress, "A")[1].message = <<"Scraping", 1, 3>>

\* region r has stopped reporting: its fetch failed, or returned at the
\* availability check before its first report
Stopped(r) == fetch[r].pc \in {"failed", "unavailable"}

\* C25: from the moment a tracked region stops reporting until the fetching
\* phase ends, its entry keeps the value it reported last (0 if it never
\* reported) and the status progress is at or below that value, whatever the
\* other regions report
C25_StalledRegionHoldsProgress ==
  [][\A r \in RegionNames :
       (fetch'[r].pc \in {"failed", "unavailable"} /\ scan' = "fetching") =>
         /\ currentStatus'.phase = "fetching"
         /\ MapHas(regionProgress', r)
         /\ currentStatus'.progress <= MapGet(regionProgress', r)[1].progress
         /\ fetch'[r].pc = "unavailable" =>
              (MapGet(regionProgress', r)[1].progress = 0 /\ currentStatus'.progress = 0)
         /\ MapGet(regionProgress', r) = MapGet(regionProgress, r)]_vars

\* region A failed in selectBestUrls, its last report at 13; region B has gone
\* through its whole pipeline to 50: the status stays at 13 and names A
C25_Witness ==
  /\ scan = "fetching"
  /\ Stopped("A")
  /\ fetch["A"].pc = "failed"
  /\ fetch["B"].pc = "done"
  /\ MapGet(regionProgress, "A")[1].progress = 13
  /\ MapGet(regionProgress, "B")[1].progress = 50
  /\ lastCall.region = "B"
  /\ currentStatus.progress = 13
  /\ currentStatus.message.label = <<"A">>

\* calcFetchProgress over every sub-step and every whole step progress 0..100
\* stays within the fetching range 0..50, starts at 0 and ends at 50
SubstepValuesInRange ==
  /\ \A substep \in DOMAIN FETCH_SUBSTEPS :
       \A stepProgress \in 0..100 :
         calcFetchProgress(substep, stepProgress, 1) \in
           PHASE_PROGRESS["fetching"].start .. PHASE_PROGRESS["fetching"].end
  /\ calcFetchProgress("queryGen", 0, 1) = 0
  /\ calcFetchProgress("extraction", 100, 1) = 50

\* C26: every progress value a region pipeline has reported, and with it the
\* status progress of the fetching phase, is an integer in 0..50; the entry of a
\* region whose pipeline ran to the end is 50, reported by its last step
C26_FetchProgressRange ==
  /\ SubstepValuesInRange
  /\ \A i \in 1..Len(regionProgress) : regionProgress[i].progress \in 0..50
  /\ scan = "fetching" => currentStatus.progress \in 0..50
  /\ \A r \in RegionNames :
       fetch[r].pc = "done" =>
         /\ MapGet(regionProgress, r)[1].progress = 50
         /\ MapGet(regionProgress, r)[1].message = <<"items extracted", Len(fetch[r].items)>>

\* a pipeline ran to the end with a failed scrape among three pages: its last
\* report is 50
C26_Witness ==
  /\ fetch["A"].pc = "done"
  /\ Len(fetch["A"].selectedUrls) = 3
  /\ Len(ErrorsFrom("A", "Scrape")) = 1
  /\ Len(fetch["A"].items) = 2
  /\ lastCall.op = "updateRegionProgress"
  /\ MapGet(regionProgress, "A")[1].progress = 50
  /\ currentStatus.progress = 50

\* the lens the specification gives for each category of the vocabulary
LensTable ==
  [events |-> "Events", tech |-> "Tech", weather |-> "Weather",
   social |-> "Conversation", news |-> "Headlines"]

\* C27: the item built from an extraction of category c has the lens Events,
\* Tech, Weather, Conversation for events, tech, weather, social and Headlines
\* for news and for any other category; its source is 'events' when c is
\* 'events' and 'search' otherwise, so its source is 'events' exactly when its
\* lens is 'Events'
C27_CategoryLensSource ==
  \A r \in RegionNames :
    \A i \in 1..Len(fetch[r].items) :
      LET item == fetch[r].items[i]
          category == item.context[2]
      IN  /\ item.lens = IF category \in DOMAIN LensTable THEN LensTable[category]
                         ELSE "Headlines"
          /\ item.source = IF category = "events" THEN "events" ELSE "search"
          /\ item.source \in {"events", "search"}
          /\ item.source = "events" <=> item.lens = "Events"

\* an extraction with a category outside the vocabulary: lens Headlines,
\* source search
C27_Witness ==
  /\ Len(fetch["A"].items) = 1
  /\ fetch["A"].items[1].context = <<"Search: ", "sports">>
  /\ fetch["A"].items[1].lens = "Headlines"
  /\ fetch["A"].items[1].source = "search"
  /\ fetch["A"].items[1].url = "c"

\* C28: starting from a non-empty selection, no sequence of category toggles,
\* in the map controls or in the NewsFeed, empties the selected categories of
\* the page or of the panel; a toggle on a selection of one category never
\* removes that category
C28_SelectionNeverEmpty ==
  [][/\ mapPage.selectedCategories # {} => mapPage'.selectedCategories # {}
     /\ newsFeed.selectedCategories # {} => newsFeed'.selectedCategories # {}
     /\ Cardinality(mapPage.selectedCategories) = 1 =>
          mapPage.selectedCategories \subseteq mapPage'.selectedCategories
     /\ (Cardinality(newsFeed.selectedCategories) = 1 /\
         mapPage'.showNewsFeed = mapPage.showNewsFeed) =>
          newsFeed.selectedCategories \subseteq newsFeed'.selectedCategories]_vars

\* in the open panel the categories were toggled off down to one, tech; the
\* page holds the same selection
C28_Witness ==
  /\ mapPage.showNewsFeed
  /\ newsFeed.selectedCategories = {"tech"}
  /\ mapPage.selectedCategories = {"tech"}
  /\ newsFeed.held

\* C29 as claimed: for one watched scan, startWatching followed by the status
\* becoming complete, onScanComplete is invoked at most once, however the
\* 2-second poll, the 3-second check and their requests in flight interleave
C29_CompleteCalledOnce == indicator.watchedScan => indicator.completeCalls <= 1

\* C30 as claimed: after any sequence of category changes, search edits,
\* pagination clicks and changes of the receipts prop, currentPage lies in
\* 1..max(1, totalPages)
C30_PageWithinRange ==
  /\ newsFeed.currentPage >= 1
  /\ newsFeed.currentPage <= (IF totalPages > 1 THEN totalPages ELSE 1)


====
